---- MODULE Spec2Model ----
(***************************************************************************)
(* Model of simlab/random_walk.py: random_walk_1d, many_walks_1D,          *)
(* random_walk_absorbing and hitting_time.                                 *)
(*                                                                         *)
(* One behaviour of the model is one call of one of the four functions.    *)
(* random_walk_absorbing is modelled tick by tick (one action per loop     *)
(* iteration); hitting_time calls it once per trial.  The vectorised       *)
(* generators random_walk_1d and many_walks_1D are single numpy            *)
(* expressions and are modelled as one action each.                        *)
(*                                                                         *)
(* Reals (p and the uniform draws of np.random.rand) are represented as    *)
(* integers in units of 1/(2*Res): Half stands for 0.5, One for 1.0.       *)
(***************************************************************************)
EXTENDS Integers, Sequences, FiniteSets

VARIABLES
    fn,         \* the function that was called
    left,       \* argument left
    right,      \* argument right
    start,      \* argument start
    p,          \* argument p of random_walk_absorbing / random_walk_1d
    max_steps,  \* argument max_steps of random_walk_absorbing
    pc,         \* position in the code
    pos,        \* random_walk_absorbing: local pos
    path,       \* random_walk_absorbing: local path
    t,          \* random_walk_absorbing: loop variable t (0 before the loop)
    draws,      \* number of np.random.rand() calls made by the current walk
    ret,        \* random_walk_absorbing: <<path, hit_time, hit_location>> once returned
    n_trials,   \* argument n_trials of hitting_time / many_walks_1D
    trial,      \* hitting_time: number of trials started so far
    times,      \* hitting_time: local times
    hits,       \* hitting_time: local hits
    hret,       \* hitting_time: <<times, <<prob_left, prob_right>>>> once returned
    n_steps,    \* argument n_steps of random_walk_1d / many_walks_1D
    wret        \* random_walk_1d / many_walks_1D: outcome of the call

vars == <<fn, left, right, start, p, max_steps, pc, pos, path, t, draws, ret,
          n_trials, trial, times, hits, hret, n_steps, wret>>

-----------------------------------------------------------------------------
(* Bounds of the model *)

\* positions left, right, start range over -PosBound..PosBound
PosBound == 3
\* max_steps ranges over -1..MaxSteps
MaxSteps == 4
\* n_trials ranges over -1..MaxTrials
MaxTrials == 2
\* n_steps ranges over -1..MaxNSteps
MaxNSteps == 3
\* reals are multiples of 1/(2*Res)
Res == 1
\* the default max_steps (10000 in the source), scaled down so that a trial
\* of hitting_time can exhaust its budget
DefaultMaxSteps == 4

Half == Res
One == 2 * Res

\* the values np.random.rand() can return: the uniform reals of [0,1)
Draws == 0 .. (One - 1)
\* the values of p: [0,1] and one out-of-range value on each side
PValues == -1 .. (One + 1)
Positions == (0 - PosBound) .. PosBound

-----------------------------------------------------------------------------
(* Pure helpers *)

\* range(lo, hi) contains v
InRange(v, lo, hi) == lo <= v /\ v < hi

\* 1 if np.random.rand() < p else -1
StepOfLeq(u, pp) == IF u <= pp THEN 1 ELSE -1
StepOf(u, pp) == IF u < pp THEN 1 ELSE -1

\* pos <= left or pos >= right
AbsorbedNear(x, l, r) == x <= l + 1 \/ x >= r
AbsorbedStrict(x, l, r) == x < l \/ x > r
Absorbed(x, l, r) == x <= l \/ x >= r

\* return np.array(path), t, pos
AbsorbReturnPrev(pa, tt, x) == <<pa, tt - 1, x>>
AbsorbReturn(pa, tt, x) == <<pa, tt, x>>

\* return np.array(path), max_steps, pos
ExhaustReturn(pa, ms, x) == <<pa, ms, x>>

\* the loop for t in range(1, max_steps + 1) has a next iteration
LoopContinuesOneMore(tt, ms) == InRange(tt + 1, 1, ms + 2)
LoopContinues(tt, ms) == InRange(tt + 1, 1, ms + 1)

RECURSIVE CountEq(_, _)
CountEq(s, v) ==
    IF s = <<>> THEN 0
    ELSE (IF s[1] = v THEN 1 ELSE 0) + CountEq(Tail(s), v)

RECURSIVE CountLeq(_, _)
CountLeq(s, v) ==
    IF s = <<>> THEN 0
    ELSE (IF s[1] <= v THEN 1 ELSE 0) + CountLeq(Tail(s), v)

\* np.mean(hits == v): the fraction num/den, NaN for an empty array
MeanLeq(s, v) ==
    IF Len(s) = 0 THEN [nan |-> TRUE, num |-> 0, den |-> 1]
    ELSE [nan |-> FALSE, num |-> CountLeq(s, v), den |-> Len(s)]
MeanEq(s, v) ==
    IF Len(s) = 0 THEN [nan |-> TRUE, num |-> 0, den |-> 1]
    ELSE [nan |-> FALSE, num |-> CountEq(s, v), den |-> Len(s)]

RECURSIVE Cumsum(_)
\* np.cumsum over a 1-d array
Cumsum(s) ==
    IF s = <<>> THEN <<>>
    ELSE LET n == Len(s)
             c == Cumsum(SubSeq(s, 1, n - 1))
         IN  Append(c, (IF n = 1 THEN 0 ELSE c[n - 1]) + s[n])

\* np.where(us < p, 1, -1)
WhereZero(us, pp) == [i \in DOMAIN us |-> IF us[i] < pp THEN 1 ELSE 0]
Where(us, pp) == [i \in DOMAIN us |-> IF us[i] < pp THEN 1 ELSE -1]

\* a numpy array of the given length may be allocated
ShapeOkPositive(n) == n > 0
ShapeOk(n) == n >= 0

\* np.random.rand(n): the arrays it can return (for n >= 0)
Rand(n) == [1 .. n -> Draws]

\* np.random.choice([-1,1], size=n): the arrays it can return (for n >= 0)
Choice(n) == [1 .. n -> {-1, 1}]

\* the outcomes of random_walk_1d(n, pp)
Walk1dOutcomes(n, pp) ==
    IF ShapeOk(n)
    THEN {[raised |-> "none", value |-> Cumsum(Where(us, pp))] : us \in Rand(n)}
    ELSE {[raised |-> "ValueError", value |-> <<>>]}

\* the outcomes of many_walks_1D(n, k): k rows, cumsum along axis 1
ManyWalksOutcomes(n, k) ==
    IF ShapeOk(n) /\ ShapeOk(k)
    THEN {[raised |-> "none", value |-> [i \in 1 .. k |-> Cumsum(m[i])]] :
              m \in [1 .. k -> Choice(n)]}
    ELSE {[raised |-> "ValueError", value |-> <<>>]}

NoResult == [raised |-> "pending", value |-> <<>>]

-----------------------------------------------------------------------------
(* Initial states: a call of one of the four functions *)

Idle ==
    /\ pos = 0 /\ path = <<>> /\ t = 0 /\ draws = 0 /\ ret = <<>>
    /\ trial = 0 /\ times = <<>> /\ hits = <<>> /\ hret = <<>>
    /\ wret = NoResult

\* random_walk_absorbing(left, right, start, p, max_steps), lines 93-94 done;
\* the second group of arguments is the call (-1, 1, 0, p, 100)
InitAbsorbing ==
    /\ fn = "random_walk_absorbing"
    /\ p \in PValues
    /\ \/ /\ left \in Positions /\ right \in Positions /\ start \in Positions
          /\ max_steps \in -1 .. MaxSteps
       \/ /\ left = -1 /\ right = 1 /\ start = 0
          /\ max_steps = 100
    /\ n_trials = 0 /\ n_steps = 0
    /\ pc = "walk"
    /\ pos = start /\ path = <<start>> /\ t = 0 /\ draws = 0 /\ ret = <<>>
    /\ trial = 0 /\ times = <<>> /\ hits = <<>> /\ hret = <<>>
    /\ wret = NoResult

\* hitting_time(left, right, n_trials, start), lines 119-120 done
InitHitting ==
    /\ fn = "hitting_time"
    /\ left \in Positions /\ right \in Positions /\ start \in Positions
    /\ p = Half
    /\ max_steps = DefaultMaxSteps
    /\ n_trials \in -1 .. MaxTrials
    /\ n_steps = 0
    /\ pc = "trials"
    /\ Idle

\* random_walk_1d(n_steps, p)
InitWalk1d ==
    /\ fn = "random_walk_1d"
    /\ left = 0 /\ right = 0 /\ start = 0 /\ max_steps = 0 /\ n_trials = 0
    /\ p \in PValues
    /\ n_steps \in -1 .. MaxNSteps
    /\ pc = "call"
    /\ Idle

\* many_walks_1D(n_steps, n_trials)
InitManyWalks ==
    /\ fn = "many_walks_1D"
    /\ left = 0 /\ right = 0 /\ start = 0 /\ max_steps = 0 /\ p = Half
    /\ n_steps \in -1 .. MaxNSteps
    /\ n_trials \in -1 .. MaxTrials
    /\ pc = "call"
    /\ Idle

Init == InitAbsorbing \/ InitHitting \/ InitWalk1d \/ InitManyWalks

-----------------------------------------------------------------------------
(* Actions *)

\* one iteration of the loop of random_walk_absorbing (lines 95-102)
Tick ==
    /\ pc = "walk"
    /\ LoopContinues(t, max_steps)
    /\ \E u \in Draws :
         LET step == StepOf(u, p)
             npos == pos + step
             npath == Append(path, npos)
         IN  /\ t' = t + 1
             /\ draws' = draws + 1
             /\ pos' = npos
             /\ path' = npath
             /\ IF Absorbed(npos, left, right)
                THEN /\ ret' = AbsorbReturn(npath, t + 1, npos)
                     /\ pc' = "returned"
                ELSE /\ ret' = ret
                     /\ pc' = "walk"
    /\ UNCHANGED <<fn, left, right, start, p, max_steps, n_trials, trial,
                   times, hits, hret, n_steps, wret>>

\* the loop of random_walk_absorbing ran out (line 103)
Exhaust ==
    /\ pc = "walk"
    /\ ~LoopContinues(t, max_steps)
    /\ ret' = ExhaustReturn(path, max_steps, pos)
    /\ pc' = "returned"
    /\ UNCHANGED <<fn, left, right, start, p, max_steps, pos, path, t, draws,
                   n_trials, trial, times, hits, hret, n_steps, wret>>

\* hitting_time starts a trial: the call on line 123 (lines 93-94 of the callee)
TrialCall ==
    /\ fn = "hitting_time"
    /\ pc = "trials"
    /\ InRange(trial, 0, n_trials)
    /\ trial' = trial + 1
    /\ pos' = start /\ path' = <<start>> /\ t' = 0 /\ draws' = 0 /\ ret' = <<>>
    /\ pc' = "walk"
    /\ UNCHANGED <<fn, left, right, start, p, max_steps, n_trials, times, hits,
                   hret, n_steps, wret>>

\* hitting_time records the trial's outcome (lines 123-125)
TrialReturn ==
    /\ fn = "hitting_time"
    /\ pc = "returned"
    /\ times' = Append(times, ret[2])
    /\ hits' = Append(hits, ret[3])
    /\ pc' = "trials"
    /\ UNCHANGED <<fn, left, right, start, p, max_steps, pos, path, t, draws,
                   ret, n_trials, trial, hret, n_steps, wret>>

\* hitting_time aggregates and returns (lines 127-133)
HittingFinish ==
    /\ fn = "hitting_time"
    /\ pc = "trials"
    /\ ~InRange(trial, 0, n_trials)
    /\ hret' = <<times, <<MeanEq(hits, left), MeanEq(hits, right)>>>>
    /\ pc' = "done"
    /\ UNCHANGED <<fn, left, right, start, p, max_steps, pos, path, t, draws,
                   ret, n_trials, trial, times, hits, n_steps, wret>>

\* random_walk_1d (lines 31-32)
RandomWalk1d ==
    /\ fn = "random_walk_1d"
    /\ pc = "call"
    /\ wret' \in Walk1dOutcomes(n_steps, p)
    /\ pc' = "done"
    /\ UNCHANGED <<fn, left, right, start, p, max_steps, pos, path, t, draws,
                   ret, n_trials, trial, times, hits, hret, n_steps>>

\* many_walks_1D (lines 56-57)
ManyWalks1D ==
    /\ fn = "many_walks_1D"
    /\ pc = "call"
    /\ wret' \in ManyWalksOutcomes(n_steps, n_trials)
    /\ pc' = "done"
    /\ UNCHANGED <<fn, left, right, start, p, max_steps, pos, path, t, draws,
                   ret, n_trials, trial, times, hits, hret, n_steps>>

Next ==
    \/ Tick
    \/ Exhaust
    \/ TrialCall
    \/ TrialReturn
    \/ HittingFinish
    \/ RandomWalk1d
    \/ ManyWalks1D

Spec == Init /\ [][Next]_vars

\* the interpreter runs the loop of random_walk_absorbing without pausing: an
\* iteration that can run does run, and so does the return after the loop
FairSpec == Spec /\ WF_vars(Tick) /\ WF_vars(Exhaust)

-----------------------------------------------------------------------------
(* Properties *)

\* the absorption condition of the specification, for a position x
AtOrBeyond(x) == x <= left \/ x >= right
\* x lies strictly between the boundaries
StrictlyInside(x) == left < x /\ x < right
\* the number of loop iterations range(1, max_steps + 1) has
Budget == IF max_steps > 0 THEN max_steps ELSE 0
\* a walk has returned: ret = <<path, hit_time, hit_location>>
WalkReturned == pc = "returned"
\* the returned walk ended on a tick whose post-step position is absorbing
EndedAbsorbed ==
    /\ WalkReturned
    /\ Len(ret[1]) >= 2
    /\ AtOrBeyond(ret[1][Len(ret[1])])
\* the i-th post-step position of the returned path
After(i) == ret[1][i + 1]
\* the number of post-step positions of the returned path
Ticks == Len(ret[1]) - 1

\* what C1 says of a returned walk, with the given length of an exhausted walk
StopsAtFirstAbsorbingTick(exhaustedLen) ==
    WalkReturned =>
        /\ draws = Ticks
        /\ \A i \in 1 .. (Ticks - 1) : StrictlyInside(After(i))
        /\ IF EndedAbsorbed
           THEN ret[2] = Ticks
           ELSE /\ \A i \in 1 .. Ticks : StrictlyInside(After(i))
                /\ Ticks = exhaustedLen

\* C1 as stated: a walk stops at the first tick whose post-step position is
\* at or beyond a boundary, and a walk that meets no such position ends after
\* exactly max_steps ticks.
C1_Original == StopsAtFirstAbsorbingTick(max_steps)

\* C1 (amended): a walk stops at the first tick whose post-step position is at
\* or beyond a boundary (all earlier post-step positions are strictly inside,
\* hit_time is that tick, and nothing is drawn or appended after it); a walk
\* that meets no such position ends after exactly max(max_steps, 0) ticks.
C1_StopsAtFirstAbsorbingTick ==
    /\ [](StopsAtFirstAbsorbingTick(Budget))
    /\ [][WalkReturned => draws' = draws /\ path' = path /\ pos' = pos]_vars

C1_Witness ==
    /\ fn = "random_walk_absorbing"
    /\ EndedAbsorbed
    /\ ret[2] >= 3
    /\ StrictlyInside(start)

\* what C2 says of a returned walk
PathShape ==
    /\ ret[1][1] = start
    /\ ret[1][Len(ret[1])] = ret[3]
    /\ Len(ret[1]) = ret[2] + 1

\* C2 as stated: for every call the returned path begins with start, ends
\* with hit_location and has length hit_time + 1.
C2_Original == WalkReturned => PathShape

\* C2 (amended): for every call with max_steps >= 0 the returned path begins
\* with start, ends with hit_location and has length hit_time + 1.
C2_PathShape == (WalkReturned /\ max_steps >= 0) => PathShape

C2_Witness ==
    /\ fn = "random_walk_absorbing"
    /\ EndedAbsorbed
    /\ ret[2] >= 2
    /\ ret[2] < max_steps

\* C3: when left < start < right, an absorbed walk returns exactly left or
\* exactly right as hit_location, and a walk that exhausted its budget returns
\* a hit_location strictly between the boundaries.
C3_HitLocation ==
    (WalkReturned /\ StrictlyInside(start)) =>
        IF EndedAbsorbed
        THEN ret[3] = left \/ ret[3] = right
        ELSE StrictlyInside(ret[3])

C3_Witness ==
    /\ fn = "random_walk_absorbing"
    /\ StrictlyInside(start)
    /\ EndedAbsorbed
    /\ ret[3] = left
    /\ ret[2] >= 2

\* C4 as stated: a walk draws at most max_steps steps and its hit_time never
\* exceeds max_steps.
C4_Original ==
    WalkReturned => (draws <= max_steps /\ ret[2] <= max_steps)

\* C4 (amended): every walk terminates, whatever p and the boundaries are; it
\* draws at most max(max_steps, 0) steps and its hit_time never exceeds
\* max_steps.
C4_Terminates ==
    /\ (pc = "walk") ~> WalkReturned
    /\ [](draws <= Budget)
    /\ [](WalkReturned => ret[2] <= max_steps)

C4_Witness ==
    /\ fn = "random_walk_absorbing"
    /\ WalkReturned
    /\ left >= right
    /\ draws = 1
    /\ max_steps >= 2

\* what C5 says of a returned walk that started at or beyond a boundary
StepsBeforeCheck ==
    /\ draws >= 1
    /\ ret[2] # 0
    /\ Len(ret[1]) >= 2
    /\ (StrictlyInside(After(1)) /\ Ticks = 1) => max_steps = 1

\* C5 as stated: a walk whose start is at or beyond a boundary still takes at
\* least one step, never returns hit_time 0, and continues when its first step
\* lands strictly inside.
C5_Original == (WalkReturned /\ AtOrBeyond(start)) => StepsBeforeCheck

\* C5 (amended): with max_steps >= 1, a walk whose start is at or beyond a
\* boundary still takes at least one step, never returns hit_time 0, and when
\* its first step lands strictly inside it is not absorbed there (it goes on
\* while the budget lasts).
C5_StepsBeforeCheck ==
    /\ (pc = "walk" /\ AtOrBeyond(start) /\ max_steps >= 1 /\ draws = 0)
           => ret = <<>>
    /\ (WalkReturned /\ AtOrBeyond(start) /\ max_steps >= 1) => StepsBeforeCheck

C5_Witness ==
    /\ fn = "random_walk_absorbing"
    /\ WalkReturned
    /\ start = left
    /\ Ticks >= 2
    /\ After(1) = left + 1
    /\ StrictlyInside(After(1))

\* hitting_time has returned: hret = <<times, <<prob_left, prob_right>>>>
HittingReturned == fn = "hitting_time" /\ pc = "done"
ProbLeft == hret[2][1]
ProbRight == hret[2][2]
\* a + b <= 1 for two results of np.mean (false when either is NaN)
SumAtMostOne(a, b) ==
    /\ ~a.nan
    /\ ~b.nan
    /\ a.num * b.den + b.num * a.den <= a.den * b.den
\* the trials whose hit_location is v
TrialsAt(v) == {i \in 1 .. Len(hits) : hits[i] = v}

\* C6 as stated: for every call of hitting_time, prob_left + prob_right <= 1.
C6_Original == HittingReturned => SumAtMostOne(ProbLeft, ProbRight)

\* C6 (amended): for every call of hitting_time with left # right and
\* n_trials >= 1, prob_left + prob_right <= 1: no trial counts toward both
\* probabilities and a trial whose hit_location is neither boundary counts
\* toward neither.
C6_ProbSum ==
    (HittingReturned /\ left # right /\ n_trials >= 1) =>
        /\ SumAtMostOne(ProbLeft, ProbRight)
        /\ ProbLeft.num + ProbRight.num =
               Cardinality({i \in 1 .. Len(hits) : hits[i] \in {left, right}})

C6_Witness ==
    /\ HittingReturned
    /\ left < right
    /\ n_trials >= 2
    /\ ProbLeft.num = 1
    /\ ProbRight.num = 0

\* what C7 says of the aggregation, for n walks run
Aggregates(n) ==
    /\ trial = n
    /\ Len(hret[1]) = n
    /\ hret[1] = times
    /\ \A i \in 1 .. Len(times) : times[i] <= DefaultMaxSteps
    /\ ProbLeft = [nan |-> FALSE, num |-> Cardinality(TrialsAt(left)), den |-> n_trials]
    /\ ProbRight = [nan |-> FALSE, num |-> Cardinality(TrialsAt(right)), den |-> n_trials]

\* C7 as stated: hitting_time runs exactly n_trials walks, times has n_trials
\* entries, none above the default max_steps, and each probability is the count
\* of trials at that boundary divided by n_trials.
C7_Original == HittingReturned => Aggregates(n_trials)

\* C7 (amended): for n_trials >= 1, hitting_time runs exactly n_trials walks
\* one after the other, each with the caller's left, right and start, p = 0.5
\* and the default max_steps; times[i] and hits[i] are the hit_time and
\* hit_location of the i-th trial; no entry exceeds the default max_steps; each
\* probability is the count of trials at that boundary divided by n_trials.
\* For n_trials <= 0 no walk is run, times is empty and both probabilities
\* are NaN.
C7_Aggregation ==
    /\ [](fn = "hitting_time" => p = Half /\ max_steps = DefaultMaxSteps)
    /\ [](fn = "hitting_time" /\ pc = "walk" => path[1] = start /\ Len(times) = trial - 1)
    /\ [][(fn = "hitting_time" /\ WalkReturned) =>
              /\ times' = Append(times, ret[2])
              /\ hits' = Append(hits, ret[3])
              /\ Len(times') = trial]_vars
    /\ []((HittingReturned /\ n_trials >= 1) => Aggregates(n_trials))
    /\ []((HittingReturned /\ n_trials <= 0) =>
              /\ trial = 0
              /\ hret[1] = <<>>
              /\ ProbLeft.nan /\ ProbRight.nan)

C7_Witness ==
    /\ HittingReturned
    /\ n_trials >= 2
    /\ times[1] # times[2]
    /\ hits[1] # hits[2]
    /\ ProbRight.num = 1

\* the path start, start + d, start + 2d, ... with n steps
Straight(d, n) == [i \in 1 .. (n + 1) |-> start + d * (i - 1)]

\* C8: with p = 1.0 every step is +1 and with p = 0.0 every step is -1,
\* whatever is drawn; for left < start < right the walk with p = 1.0 absorbs at
\* right on tick right - start and the walk with p = 0.0 at left on tick
\* start - left (budget permitting); the call (-1, 1, 0, p, 100) returns
\* ([0,1], 1, 1) for p = 1.0 and ([0,-1], 1, -1) for p = 0.0.
C8_Deterministic ==
    /\ [][(draws' = draws + 1 /\ p = One) => pos' = pos + 1]_vars
    /\ [][(draws' = draws + 1 /\ p = 0) => pos' = pos - 1]_vars
    /\ []((WalkReturned /\ StrictlyInside(start) /\ p = One /\ right - start <= max_steps)
              => ret = <<Straight(1, right - start), right - start, right>>)
    /\ []((WalkReturned /\ StrictlyInside(start) /\ p = 0 /\ start - left <= max_steps)
              => ret = <<Straight(-1, start - left), start - left, left>>)
    /\ []((WalkReturned /\ left = -1 /\ right = 1 /\ start = 0 /\ max_steps = 100 /\ p = One)
              => ret = << <<0, 1>>, 1, 1 >>)
    /\ []((WalkReturned /\ left = -1 /\ right = 1 /\ start = 0 /\ max_steps = 100 /\ p = 0)
              => ret = << <<0, -1>>, 1, -1 >>)

C8_Witness ==
    /\ fn = "random_walk_absorbing"
    /\ WalkReturned
    /\ left = -1 /\ right = 1 /\ start = 0 /\ max_steps = 100
    /\ p = 0
    /\ ret[3] = -1

\* w is a walk of n positions: it starts at +1 or -1 and moves by +1 or -1
IsWalk(w, n) ==
    /\ Len(w) = n
    /\ w[1] \in {1, -1}
    /\ \A i \in 2 .. n : w[i] - w[i - 1] \in {1, -1}

\* C9: for n_steps >= 1 and n_trials >= 1, random_walk_1d returns n_steps
\* positions and many_walks_1D returns n_trials rows of n_steps positions; each
\* walk starts at +1 or -1 and moves by +1 or -1; the rows many_walks_1D can
\* produce are the walks random_walk_1d can produce with p = 0.5.
C9_WalkShape ==
    /\ (fn = "random_walk_1d" /\ pc = "done" /\ n_steps >= 1) =>
           /\ wret.raised = "none"
           /\ IsWalk(wret.value, n_steps)
    /\ (fn = "many_walks_1D" /\ pc = "done" /\ n_steps >= 1 /\ n_trials >= 1) =>
           /\ wret.raised = "none"
           /\ Len(wret.value) = n_trials
           /\ \A i \in 1 .. n_trials : IsWalk(wret.value[i], n_steps)
    /\ (fn = "many_walks_1D" /\ pc = "call" /\ n_steps >= 1 /\ n_trials >= 1) =>
           {o.value[i] : o \in ManyWalksOutcomes(n_steps, n_trials), i \in 1 .. n_trials}
               = {o.value : o \in Walk1dOutcomes(n_steps, Half)}

C9_Witness ==
    /\ fn = "many_walks_1D"
    /\ pc = "done"
    /\ n_steps >= 2
    /\ n_trials >= 2
    /\ wret.value[1] # wret.value[2]

\* C10 as stated: for every n_steps <= 0, random_walk_1d returns an empty
\* sequence and raises no error.
C10_Original ==
    (fn = "random_walk_1d" /\ pc = "done" /\ n_steps <= 0) =>
        wret = [raised |-> "none", value |-> <<>>]

\* C10 (amended): random_walk_1d(0) returns an empty sequence and raises no
\* error; for n_steps < 0 the call raises ValueError (np.random.rand rejects a
\* negative dimension).
C10_NonPositiveSteps ==
    /\ (fn = "random_walk_1d" /\ pc = "done" /\ n_steps = 0) =>
           wret = [raised |-> "none", value |-> <<>>]
    /\ (fn = "random_walk_1d" /\ pc = "done" /\ n_steps < 0) =>
           wret.raised = "ValueError"

C10_Witness ==
    /\ fn = "random_walk_1d"
    /\ pc = "done"
    /\ n_steps = 0
    /\ wret.raised = "none"

====
